---- MODULE Spec2Model ----
(***************************************************************************)
(* Model of usdUtils/stitch.h: UsdUtilsStitchLayers and UsdUtilsStitchInfo *)
(* with and without a UsdUtilsStitchValueFn callback.  A layer is a tree   *)
(* of specs addressed by path plus layer-level metadata; stitching merges  *)
(* a weak layer into a strong layer, the strong layer winning conflicts.   *)
(***************************************************************************)
EXTENDS Integers, Sequences, FiniteSets, TLC

VARIABLES
    strong,          \* the strong layer (mutated in place)
    weak,            \* the weak layer (only read)
    before,          \* the strong layer as it was when the current call began
    pc,              \* "idle" | "walk" | "done"
    stack,           \* weak paths still to visit, depth first
    stitchValueFn,   \* the callback handed to the calls, or NoStitchValueFn
    calls,           \* the entry points called so far: "layers" | "info"
    walked,          \* the weak paths this call has gone through, in order
    runs,            \* calls completed so far
    haltOnMismatch   \* whether a kind mismatch ends the walk of that branch
                     \* (the design leaves it open; fixed for a behaviour)

vars == <<strong, weak, before, pc, stack, stitchValueFn, calls, walked, runs,
          haltOnMismatch>>

(***************************************************************************)
(* Bounds                                                                  *)
(***************************************************************************)
\* consecutive stitch calls on the same pair of layers
MaxRuns == 2
\* nesting depth of the dictionaries drawn as inputs
MaxDepth == 2

(***************************************************************************)
(* Values: the kinds a field can hold                                      *)
(***************************************************************************)
Scalar(v) == [t |-> "scalar", v |-> v]
ListOp(items) == [t |-> "listop", items |-> items]
Dict(d) == [t |-> "dict", d |-> d]
TimeSamples(m) == [t |-> "timeSamples", m |-> m]
TimeCode(n) == [t |-> "timecode", n |-> n]
\* an empty VtValue
EmptyValue == [t |-> "empty"]

\* a field map / dictionary / time-sample map with no entry
NoEntries == [k \in {} |-> 0]

Put(fm, f, v) == [g \in (DOMAIN fm) \cup {f} |-> IF g = f THEN v ELSE fm[g]]
Remove(fm, f) == [g \in (DOMAIN fm) \ {f} |-> fm[g]]

\* the field names a host spec of a kind declares (ListInfoKeys)
DeclaredFields(kind) ==
    CASE kind = "prim" -> {"comment", "references", "customData"}
      [] kind = "attribute" -> {"default", "timeSamples"}
      [] kind = "layer" -> {"framesPerSecond", "startTimeCode", "endTimeCode"}

\* the value kind a field name is declared with
FieldKind(f) ==
    CASE f \in {"comment", "default", "framesPerSecond"} -> "scalar"
      [] f = "references" -> "listop"
      [] f = "customData" -> "dict"
      [] f = "timeSamples" -> "timeSamples"
      [] f \in {"startTimeCode", "endTimeCode"} -> "timecode"

(***************************************************************************)
(* Default stitching of one field (no callback, or UseDefaultValue)        *)
(***************************************************************************)
\* variant: times within one millionth of each other count as the same
SameTime_Fuzzy(a, b) == a - b \in -1..1

\* time samples are compared exactly, with no fuzzying of the numbers
SameTime(a, b) == a = b

\* map-join of two time-sample maps, the strong keys taking precedence
StitchTimeSamples(s, w) ==
    LET added == {k \in DOMAIN w : \A j \in DOMAIN s : ~SameTime(j, k)}
    IN  [k \in (DOMAIN s) \cup added |-> IF k \in DOMAIN s THEN s[k] ELSE w[k]]

\* dictionary style composition, strong over weak, at any nesting depth
RECURSIVE StitchDictionary(_, _)
StitchDictionary(s, w) ==
    [k \in (DOMAIN s) \cup (DOMAIN w) |->
        IF k \notin DOMAIN s THEN w[k]
        ELSE IF k \notin DOMAIN w THEN s[k]
        ELSE IF s[k].t = "dict" /\ w[k].t = "dict"
             THEN Dict(StitchDictionary(s[k].d, w[k].d))
             ELSE s[k]]

Min(a, b) == IF a <= b THEN a ELSE b
Max(a, b) == IF a >= b THEN a ELSE b

\* variant: the time codes follow the rule of the other fields, strong wins
AggregateTimeCode_StrongWins(f, a, b) == a

\* start frame: the minimum seen across the layers; end frame: the maximum
AggregateTimeCode(f, a, b) ==
    IF f = "startTimeCode" THEN Min(a, b) ELSE Max(a, b)

\* a time code missing on one side is left out of the comparison
StitchTimeCode(f, sf, wf) ==
    IF f \in DOMAIN sf /\ f \in DOMAIN wf
    THEN Put(sf, f, TimeCode(AggregateTimeCode(f, sf[f].n, wf[f].n)))
    ELSE IF f \in DOMAIN wf THEN Put(sf, f, wf[f])
    ELSE sf

\* variant: weak's value overwrites strong's
StitchFlat_WeakWins(f, sf, wf) ==
    IF f \in DOMAIN wf THEN Put(sf, f, wf[f]) ELSE sf

\* variant: a value strong lacks is not copied from weak
StitchFlat_NeverCopies(f, sf, wf) == sf

\* variant: list edits held by both sides are concatenated
StitchFlat_AppendsListOps(f, sf, wf) ==
    IF f \in DOMAIN sf /\ f \in DOMAIN wf /\ FieldKind(f) = "listop"
    THEN Put(sf, f, ListOp(sf[f].items \o wf[f].items))
    ELSE IF f \in DOMAIN sf THEN sf
    ELSE IF f \in DOMAIN wf THEN Put(sf, f, wf[f])
    ELSE sf

\* flat data (scalars, list edits): strong keeps its value, else weak's is copied
StitchFlat(f, sf, wf) ==
    IF f \in DOMAIN sf THEN sf
    ELSE IF f \in DOMAIN wf THEN Put(sf, f, wf[f])
    ELSE sf

\* variant: a dictionary is treated as flat data, strong's wins whole
DefaultStitch_FlatDictionaries(f, sf, wf) ==
    LET both == f \in DOMAIN sf /\ f \in DOMAIN wf
    IN  CASE FieldKind(f) = "timecode" -> StitchTimeCode(f, sf, wf)
          [] FieldKind(f) = "timeSamples" /\ both ->
                Put(sf, f, TimeSamples(StitchTimeSamples(sf[f].m, wf[f].m)))
          [] OTHER -> StitchFlat(f, sf, wf)

\* the default policy for field f of a strong/weak pair of field maps
DefaultStitch(f, sf, wf) ==
    LET both == f \in DOMAIN sf /\ f \in DOMAIN wf
    IN  CASE FieldKind(f) = "timecode" -> StitchTimeCode(f, sf, wf)
          [] FieldKind(f) = "dict" /\ both ->
                Put(sf, f, Dict(StitchDictionary(sf[f].d, wf[f].d)))
          [] FieldKind(f) = "timeSamples" /\ both ->
                Put(sf, f, TimeSamples(StitchTimeSamples(sf[f].m, wf[f].m)))
          [] OTHER -> StitchFlat(f, sf, wf)

(***************************************************************************)
(* The UsdUtilsStitchValueFn protocol                                      *)
(***************************************************************************)
\* what a callback may hand back as stitchedValue
SuppliedValues == {EmptyValue, Scalar("cb")}

Decisions ==
    {[status |-> "NoStitchedValue", value |-> EmptyValue],
     [status |-> "UseDefaultValue", value |-> EmptyValue]}
    \cup {[status |-> "UseSuppliedValue", value |-> v] : v \in SuppliedValues}

\* no callback behaves as one that always answers UseDefaultValue
NoCallback == [status |-> "UseDefaultValue", value |-> EmptyValue]

\* a callback that answers dec for one field name and UseDefaultValue otherwise
NoStitchValueFn == [field |-> "", dec |-> NoCallback]
CallbackAnswer(fn, f) == IF f = fn.field THEN fn.dec ELSE NoCallback

\* a supplied value must be of the kind the field is declared with
SuppliedFits(f, v) == v # EmptyValue /\ v.t = FieldKind(f)

\* variant: an empty supplied value leaves the field as it is
StitchField_IgnoresEmpty(f, sf, wf, dec) ==
    CASE dec.status = "NoStitchedValue" -> sf
      [] dec.status = "UseSuppliedValue" /\ dec.value = EmptyValue -> sf
      [] dec.status = "UseSuppliedValue" /\ SuppliedFits(f, dec.value) ->
            Put(sf, f, dec.value)
      [] OTHER -> DefaultStitch(f, sf, wf)

\* variant: NoStitchedValue falls through to the default policy
StitchField_StitchesSkipped(f, sf, wf, dec) ==
    CASE dec.status = "UseSuppliedValue" /\ dec.value = EmptyValue -> Remove(sf, f)
      [] dec.status = "UseSuppliedValue" /\ SuppliedFits(f, dec.value) ->
            Put(sf, f, dec.value)
      [] OTHER -> DefaultStitch(f, sf, wf)

\* one field of a corresponding pair, given the callback's answer
StitchField(f, sf, wf, dec) ==
    CASE dec.status = "NoStitchedValue" -> sf
      [] dec.status = "UseSuppliedValue" /\ dec.value = EmptyValue -> Remove(sf, f)
      [] dec.status = "UseSuppliedValue" /\ SuppliedFits(f, dec.value) ->
            Put(sf, f, dec.value)
      [] OTHER -> DefaultStitch(f, sf, wf)

\* variant: the loop over the fields ends after the first one
StitchFields_FirstOnly(order, sf, wf, fn) ==
    IF order = <<>> THEN sf
    ELSE StitchField(Head(order), sf, wf, CallbackAnswer(fn, Head(order)))

\* the fields of a corresponding pair, visited in the given order
RECURSIVE StitchFields(_, _, _, _)
StitchFields(order, sf, wf, fn) ==
    IF order = <<>> THEN sf
    ELSE StitchFields(Tail(order),
                      StitchField(Head(order), sf, wf, CallbackAnswer(fn, Head(order))),
                      wf, fn)

\* every order in which the fields of a set can be visited
RECURSIVE Orders(_)
Orders(S) ==
    IF S = {} THEN {<<>>}
    ELSE UNION {{<<x>> \o o : o \in Orders(S \ {x})} : x \in S}

(***************************************************************************)
(* Layers: a tree of specs addressed by path, and layer metadata           *)
(***************************************************************************)
Root == <<>>
Paths == {<<"a">>, <<"b">>, <<"a", "c">>}

IsPrefix(p, q) == Len(p) <= Len(q) /\ SubSeq(q, 1, Len(p)) = p
Parent(p) == SubSeq(p, 1, Len(p) - 1)

\* the child paths of p in a layer, and the subtree rooted at p
Children(layer, p) ==
    {q \in DOMAIN layer.specs : Len(q) = Len(p) + 1 /\ IsPrefix(p, q)}
Subtree(layer, p) == {q \in DOMAIN layer.specs : IsPrefix(p, q)}

\* variant: the spec at p is copied without the specs below it
CopySpec_Shallow(s, w, p) ==
    [s EXCEPT !.specs =
        [q \in (DOMAIN s.specs) \cup {p} |-> IF q = p THEN w.specs[q] ELSE s.specs[q]]]

\* clean copy of the weak subtree at p into the strong layer
CopySpec(s, w, p) ==
    [s EXCEPT !.specs =
        [q \in (DOMAIN s.specs) \cup Subtree(w, p) |->
            IF q \in Subtree(w, p) THEN w.specs[q] ELSE s.specs[q]]]

\* the strong spec at p with its fields stitched from the weak spec at p
StitchSpec(s, w, p, order, fn) ==
    [s EXCEPT !.specs[p].fields =
        StitchFields(order, s.specs[p].fields, w.specs[p].fields, fn)]

\* the layer-level fields, stitched like a spec's
StitchMetadata(s, w, order, fn) ==
    [s EXCEPT !.meta = StitchFields(order, s.meta, w.meta, fn)]

(***************************************************************************)
(* The layers the calls are made on                                        *)
(***************************************************************************)
DictKeys == {"k1", "k2"}
\* 101.0, 101.000001, 101.000002 and 102.0, in millionths
TimeKeys == {101000000, 101000001, 101000002, 102000000}
StartCodes == {-5, 2, 5}
EndCodes == {-5, 10, 20}

\* dictionaries nested to depth d; a nested dictionary sits under key "k1"
RECURSIVE DictsOfDepth(_, _)
DictsOfDepth(d, who) ==
    IF d = 0 THEN {NoEntries}
    ELSE LET sub == {Dict(x) : x \in DictsOfDepth(d - 1, who)}
             vals == {Scalar(who)} \cup sub
         IN  UNION {{f \in [K -> vals] : \A k \in K : f[k].t = "dict" => k = "k1"} :
                    K \in SUBSET DictKeys}

\* field maps: each named field absent or drawn from its set of values
Optional(f, values) == {NoEntries} \cup {Put(NoEntries, f, v) : v \in values}
Merge2(A, B) ==
    {[f \in (DOMAIN a) \cup (DOMAIN b) |-> IF f \in DOMAIN a THEN a[f] ELSE b[f]] :
        a \in A, b \in B}

Layer(specs, meta) == [specs |-> specs, meta |-> meta]
Spec1(kind, fields) == [kind |-> kind, fields |-> fields]

\* a layer's paths are closed under Parent, and only a prim has children
WellFormed(sp) ==
    \A p \in DOMAIN sp :
        Len(p) > 1 => Parent(p) \in DOMAIN sp /\ sp[Parent(p)].kind = "prim"

\* trees of every shape and kind, each prim with or without one scalar field
TreeSpecs(who) ==
    {Spec1("prim", fm) : fm \in Optional("comment", {Scalar(who)})}
    \cup {Spec1("attribute", Put(NoEntries, "default", Scalar(who)))}
TreeLayers(who) ==
    {Layer(sp, NoEntries) :
        sp \in UNION {{x \in [D -> TreeSpecs(who)] : WellFormed(x)} :
                        D \in SUBSET Paths}}

\* a layer holding the one spec /a
OneSpec(kind, fields) == Layer([p \in {<<"a">>} |-> Spec1(kind, fields)], NoEntries)

\* one prim whose customData dictionary varies
DictLayers(who) ==
    {OneSpec("prim", fm) :
        fm \in Optional("customData", {Dict(d) : d \in DictsOfDepth(MaxDepth, who)})}

\* one prim whose flat fields vary; "x" is a value both sides can hold
FlatLayers(who, items) ==
    {OneSpec("prim", fm) :
        fm \in Merge2(Optional("comment", {Scalar(who), Scalar("x")}),
                      Merge2(Optional("references", {ListOp(items)}),
                             Optional("customData",
                                      {Dict(Put(NoEntries, "k1", Scalar(who)))})))}

\* one attribute whose time samples vary
SampleLayers(who) ==
    {OneSpec("attribute", fm) :
        fm \in Merge2(Optional("default", {Scalar(who)}),
                      Optional("timeSamples",
                               {TimeSamples([k \in K |-> who]) : K \in SUBSET TimeKeys}))}

\* layer metadata that varies, over a tree of one prim
MetaLayers(who) ==
    {Layer([p \in {<<"a">>} |-> Spec1("prim", NoEntries)], m) :
        m \in Merge2(Optional("framesPerSecond", {Scalar(who)}),
                     Merge2(Optional("startTimeCode", {TimeCode(n) : n \in StartCodes}),
                            Optional("endTimeCode", {TimeCode(n) : n \in EndCodes})))}

\* layers for the callback: every field present, or none; the two sides
\* differ in every value, dictionary key, sample time and time code
FullFields(kind, who) ==
    CASE kind = "prim" ->
            [comment |-> Scalar(who), references |-> ListOp(<<who>>),
             customData |->
                Dict(Put(NoEntries, IF who = "s" THEN "k1" ELSE "k2", Scalar(who)))]
      [] kind = "attribute" ->
            [default |-> Scalar(who),
             timeSamples |->
                TimeSamples([k \in {IF who = "s" THEN 101000001 ELSE 101000002} |-> who])]
      [] kind = "layer" ->
            [framesPerSecond |-> Scalar(who),
             startTimeCode |-> TimeCode(IF who = "s" THEN 5 ELSE 2),
             endTimeCode |-> TimeCode(IF who = "s" THEN 10 ELSE 20)]
CallbackLayers(who) ==
    LET fields(kind, full) == IF full THEN FullFields(kind, who) ELSE NoEntries
    IN  {Layer([p \in D |-> IF p = <<"a">> THEN Spec1("prim", fields("prim", full))
                            ELSE Spec1("attribute", fields("attribute", full))],
               fields("layer", full)) :
            D \in {{}, {<<"a">>}, {<<"a">>, <<"a", "c">>}}, full \in BOOLEAN}

StitchValueFns ==
    {[field |-> f, dec |-> d] :
        f \in DeclaredFields("prim") \cup DeclaredFields("attribute")
              \cup DeclaredFields("layer"),
        d \in Decisions \ {NoCallback}}

Scenario(s, w, fn, halt) == [strong |-> s, weak |-> w, fn |-> fn, halt |-> halt]
Scenarios ==
    {Scenario(s, w, NoStitchValueFn, h) :
        s \in TreeLayers("s"), w \in TreeLayers("w"), h \in BOOLEAN}
    \cup {Scenario(s, w, NoStitchValueFn, FALSE) :
            s \in DictLayers("s"), w \in DictLayers("w")}
    \cup {Scenario(s, w, NoStitchValueFn, FALSE) :
            s \in FlatLayers("s", <<"A">>), w \in FlatLayers("w", <<"B">>)}
    \cup {Scenario(s, w, NoStitchValueFn, FALSE) :
            s \in SampleLayers("s"), w \in SampleLayers("w")}
    \cup {Scenario(s, w, NoStitchValueFn, FALSE) :
            s \in MetaLayers("s"), w \in MetaLayers("w")}
    \cup {Scenario(s, w, fn, FALSE) :
            s \in CallbackLayers("s"), w \in CallbackLayers("w"), fn \in StitchValueFns}

Init ==
    \E sc \in Scenarios :
        /\ strong = sc.strong
        /\ weak = sc.weak
        /\ before = sc.strong
        /\ stitchValueFn = sc.fn
        /\ haltOnMismatch = sc.halt
        /\ pc = "idle"
        /\ calls = <<>>
        /\ stack = <<>>
        /\ walked = <<>>
        /\ runs = 0

(***************************************************************************)
(* UsdUtilsStitchLayers: the walk over the weak layer's specs              *)
(***************************************************************************)
\* the call begins at the root prims of the weak layer
StitchLayersBegin ==
    /\ pc \in {"idle", "done"}
    /\ runs < MaxRuns
    /\ \E order \in Orders(Children(weak, Root)) : stack' = order
    /\ pc' = "walk"
    /\ calls' = Append(calls, "layers")
    /\ before' = strong
    /\ walked' = <<>>
    /\ UNCHANGED <<strong, weak, stitchValueFn, runs, haltOnMismatch>>

\* no path match in the strong layer: a clean copy of the weak subtree
CloneSpec ==
    /\ pc = "walk" /\ stack # <<>>
    /\ Head(stack) \notin DOMAIN strong.specs
    /\ strong' = CopySpec(strong, weak, Head(stack))
    /\ stack' = Tail(stack)
    /\ walked' = Append(walked, Head(stack))
    /\ UNCHANGED <<weak, before, pc, stitchValueFn, calls, runs, haltOnMismatch>>

\* the paths match but the spec kinds do not: no field is stitched
SkipSpec ==
    /\ pc = "walk" /\ stack # <<>>
    /\ Head(stack) \in DOMAIN strong.specs
    /\ strong.specs[Head(stack)].kind # weak.specs[Head(stack)].kind
    /\ \E order \in Orders(Children(weak, Head(stack))) :
          stack' = IF haltOnMismatch THEN Tail(stack) ELSE order \o Tail(stack)
    /\ walked' = Append(walked, Head(stack))
    /\ UNCHANGED <<strong, weak, before, pc, stitchValueFn, calls, runs, haltOnMismatch>>

\* the paths match: stitch the fields, then recurse to the weak spec's children
MergeSpec ==
    /\ pc = "walk" /\ stack # <<>>
    /\ Head(stack) \in DOMAIN strong.specs
    /\ strong.specs[Head(stack)].kind = weak.specs[Head(stack)].kind
    /\ \E fields \in Orders(DeclaredFields(weak.specs[Head(stack)].kind)) :
          strong' = StitchSpec(strong, weak, Head(stack), fields, stitchValueFn)
    /\ \E order \in Orders(Children(weak, Head(stack))) :
          stack' = order \o Tail(stack)
    /\ walked' = Append(walked, Head(stack))
    /\ UNCHANGED <<weak, before, pc, stitchValueFn, calls, runs, haltOnMismatch>>

\* the final step: the layer-level fields
StitchLayerMetadata ==
    /\ pc = "walk" /\ stack = <<>>
    /\ \E fields \in Orders(DeclaredFields("layer")) :
          strong' = StitchMetadata(strong, weak, fields, stitchValueFn)
    /\ pc' = "done"
    /\ runs' = runs + 1
    /\ UNCHANGED <<weak, before, stack, stitchValueFn, calls, walked, haltOnMismatch>>

(***************************************************************************)
(* UsdUtilsStitchInfo: the fields of one corresponding pair, no recursion  *)
(***************************************************************************)
StitchInfo ==
    /\ pc \in {"idle", "done"}
    /\ runs < MaxRuns
    /\ \E p \in (DOMAIN strong.specs) \cap (DOMAIN weak.specs) :
          IF strong.specs[p].kind = weak.specs[p].kind
          THEN /\ \E fields \in Orders(DeclaredFields(weak.specs[p].kind)) :
                     strong' = StitchSpec(strong, weak, p, fields, stitchValueFn)
               /\ walked' = <<p>>
          ELSE /\ strong' = strong
               /\ walked' = <<>>
    /\ before' = strong
    /\ pc' = "done"
    /\ calls' = Append(calls, "info")
    /\ runs' = runs + 1
    /\ UNCHANGED <<weak, stack, stitchValueFn, haltOnMismatch>>

Next ==
    \/ StitchLayersBegin
    \/ CloneSpec
    \/ SkipSpec
    \/ MergeSpec
    \/ StitchLayerMetadata
    \/ StitchInfo

Spec == Init /\ [][Next]_vars

(***************************************************************************)
(* Vocabulary of the properties                                            *)
(***************************************************************************)
Done == pc = "done"
Op == IF calls = <<>> THEN "none" ELSE calls[Len(calls)]
NoFn == stitchValueFn = NoStitchValueFn

\* the paths holding a spec in both layers when the call began
InBoth == (DOMAIN before.specs) \cap (DOMAIN weak.specs)
SameKind(p) == before.specs[p].kind = weak.specs[p].kind
\* the corresponding pairs the finished call stitched the fields of
Pairs ==
    IF Op = "info" THEN {walked[i] : i \in DOMAIN walked}
    ELSE {p \in InBoth : SameKind(p)}

\* the strong/weak/result field maps the finished call stitched: each
\* corresponding pair, and for UsdUtilsStitchLayers the layer metadata
Stitched ==
    {<<before.specs[p].fields, weak.specs[p].fields, strong.specs[p].fields>> :
        p \in Pairs}
    \cup IF Op = "layers" THEN {<<before.meta, weak.meta, strong.meta>>} ELSE {}

\* every field map of the strong layer, before and after the finished call
AllStrong ==
    {<<before.specs[p].fields,
       IF p \in DOMAIN strong.specs THEN strong.specs[p].fields ELSE NoEntries,
       p \in DOMAIN strong.specs>> : p \in DOMAIN before.specs}
    \cup {<<before.meta, strong.meta, TRUE>>}

\* the key paths of a nested dictionary, and the value at one
RECURSIVE KeyPaths(_)
KeyPaths(d) ==
    {<<k>> : k \in DOMAIN d}
    \cup UNION {{<<k>> \o q : q \in KeyPaths(d[k].d)} :
                    k \in {j \in DOMAIN d : d[j].t = "dict"}}
RECURSIVE At(_, _)
At(d, q) == IF Len(q) = 1 THEN d[q[1]] ELSE At(d[q[1]].d, Tail(q))

Has(fm, f, v) == f \in DOMAIN fm /\ fm[f] = v

SamplesOf(fm) == IF "timeSamples" \in DOMAIN fm THEN fm["timeSamples"].m ELSE NoEntries

(***************************************************************************)
(* C1  Precedence                                                          *)
(***************************************************************************)
\* C1 as stated: after a call without a callback every field that was
\* present in strong has an unchanged value.
C1_EveryFieldUnchanged ==
    (Done /\ NoFn) =>
        \A x \in AllStrong : \A f \in DOMAIN x[1] :
            x[3] /\ f \in DOMAIN x[2] /\ x[2][f] = x[1][f]

\* what strong keeps of one field it held
KeepsField(f, old, new) ==
    CASE FieldKind(f) \in {"scalar", "listop"} -> new = old
      [] FieldKind(f) = "timeSamples" ->
            \A k \in DOMAIN old.m : k \in DOMAIN new.m /\ new.m[k] = old.m[k]
      [] FieldKind(f) = "dict" ->
            \A q \in KeyPaths(old.d) :
                /\ q \in KeyPaths(new.d)
                /\ At(old.d, q).t # "dict" => At(new.d, q) = At(old.d, q)
      [] FieldKind(f) = "timecode" ->
            IF f = "startTimeCode" THEN new.n <= old.n ELSE new.n >= old.n

\* C1 amended: after a call without a callback every field that was present
\* in strong is still present; a scalar or list-edit field keeps exactly
\* strong's value (nothing of weak's); a dictionary or time-sample field
\* keeps every entry strong had; the start time code can only decrease and
\* the end time code only increase.
C1_Precedence ==
    (Done /\ NoFn) =>
        \A x \in AllStrong : \A f \in DOMAIN x[1] :
            x[3] /\ f \in DOMAIN x[2] /\ KeepsField(f, x[1][f], x[2][f])

\* a list-edit field present on both sides with different values, after a call
C1_Witness ==
    /\ Done /\ NoFn /\ Op = "layers"
    /\ \E p \in Pairs :
          /\ "references" \in DOMAIN before.specs[p].fields
          /\ "references" \in DOMAIN weak.specs[p].fields
          /\ before.specs[p].fields["references"] # weak.specs[p].fields["references"]
          /\ Has(strong.specs[p].fields, "references", ListOp(<<"A">>))

(***************************************************************************)
(* C2  Completion                                                          *)
(***************************************************************************)
\* field f of the weak map wf arrived in the result map rf (old map: sf)
Arrived(f, sf, wf, rf) ==
    /\ f \in DOMAIN rf
    /\ f \notin DOMAIN sf => rf[f] = wf[f]

\* the weak spec at p arrived in strong, field by field
SpecArrived(p) ==
    /\ p \in DOMAIN strong.specs
    /\ \A f \in DOMAIN weak.specs[p].fields :
          Arrived(f,
                  IF p \in DOMAIN before.specs THEN before.specs[p].fields ELSE NoEntries,
                  weak.specs[p].fields, strong.specs[p].fields)

MetaArrived == \A f \in DOMAIN weak.meta : Arrived(f, before.meta, weak.meta, strong.meta)

NoMismatchAbove(p) ==
    \A n \in 1..Len(p) :
        SubSeq(p, 1, n) \in DOMAIN before.specs => SameKind(SubSeq(p, 1, n))

TwiceStitched ==
    /\ Done /\ NoFn
    /\ Len(calls) >= 2
    /\ calls[Len(calls)] = "layers"
    /\ calls[Len(calls) - 1] = "layers"

\* C3: a second UsdUtilsStitchLayers with the same weak layer leaves the
\* already stitched strong layer exactly as the first call left it.
C3_Idempotence == TwiceStitched => strong = before

\* a second call on a strong layer that the first call filled from weak
C3_Witness ==
    /\ TwiceStitched
    /\ \E p \in DOMAIN strong.specs :
          /\ "timeSamples" \in DOMAIN strong.specs[p].fields
          /\ {"s", "w"} \subseteq
                {strong.specs[p].fields["timeSamples"].m[k] :
                    k \in DOMAIN strong.specs[p].fields["timeSamples"].m}

(***************************************************************************)
(* C4  Time samples                                                        *)
(***************************************************************************)
\* C4: the stitched time-sample map has the union of the two key sets, the
\* strong value at every strong key and the weak value at every other key;
\* keys are told apart exactly.
C4_TimeSampleUnion ==
    (Done /\ NoFn) =>
        \A p \in Pairs :
            LET s == SamplesOf(before.specs[p].fields)
                w == SamplesOf(weak.specs[p].fields)
                m == SamplesOf(strong.specs[p].fields)
            IN  /\ DOMAIN m = (DOMAIN s) \cup (DOMAIN w)
                /\ \A k \in DOMAIN s : m[k] = s[k]
                /\ \A k \in (DOMAIN w) \ (DOMAIN s) : m[k] = w[k]

\* 101.000001 in strong and 101.000002 in weak are both kept; 101.0, held by
\* both, keeps strong's value
C4_Witness ==
    /\ Done /\ NoFn
    /\ \E p \in Pairs :
          LET s == SamplesOf(before.specs[p].fields)
              w == SamplesOf(weak.specs[p].fields)
              m == SamplesOf(strong.specs[p].fields)
          IN  /\ DOMAIN s = {101000000, 101000001}
              /\ DOMAIN w = {101000000, 101000002}
              /\ DOMAIN m = {101000000, 101000001, 101000002}
              /\ m[101000000] = "s" /\ m[101000002] = "w"

(***************************************************************************)
(* C5  Start and end time code                                             *)
(***************************************************************************)
\* the stitched time code f is the least (start) or greatest (end) of the
\* values the two layers define; with one value defined it is that value
Aggregated(f, sf, wf, rf) ==
    LET given == {m[f].n : m \in {x \in {sf, wf} : f \in DOMAIN x}}
    IN  IF given = {} THEN f \notin DOMAIN rf
        ELSE /\ f \in DOMAIN rf
             /\ rf[f].n \in given
             /\ \A n \in given : IF f = "startTimeCode" THEN rf[f].n <= n
                                                        ELSE rf[f].n >= n

\* C5: after UsdUtilsStitchLayers the start time code is the minimum and the
\* end time code the maximum of the two layers' values, a missing value
\* being left out of the comparison.
C5_TimeCodes ==
    (Done /\ NoFn /\ Op = "layers") =>
        /\ Aggregated("startTimeCode", before.meta, weak.meta, strong.meta)
        /\ Aggregated("endTimeCode", before.meta, weak.meta, strong.meta)

\* start 5 against 2 gives 2; end 10 against 20 gives 20
C5_Witness ==
    /\ Done /\ NoFn /\ Op = "layers"
    /\ Has(before.meta, "startTimeCode", TimeCode(5))
    /\ Has(weak.meta, "startTimeCode", TimeCode(2))
    /\ Has(strong.meta, "startTimeCode", TimeCode(2))
    /\ Has(before.meta, "endTimeCode", TimeCode(10))
    /\ Has(weak.meta, "endTimeCode", TimeCode(20))
    /\ Has(strong.meta, "endTimeCode", TimeCode(20))

\* a time code only the weak layer defines is the result as it stands
C5_WitnessMissing ==
    /\ Done /\ NoFn /\ Op = "layers"
    /\ "startTimeCode" \notin DOMAIN before.meta
    /\ Has(weak.meta, "startTimeCode", TimeCode(5))
    /\ Has(strong.meta, "startTimeCode", TimeCode(5))

(***************************************************************************)
(* C6  Dictionaries                                                        *)
(***************************************************************************)
\* the corresponding pairs holding the dictionary field on both sides, as
\* <<strong's, weak's, stitched>> dictionaries
DictPairs ==
    {<<before.specs[p].fields["customData"].d, weak.specs[p].fields["customData"].d,
       strong.specs[p].fields["customData"].d>> :
        p \in {q \in Pairs : /\ "customData" \in DOMAIN before.specs[q].fields
                             /\ "customData" \in DOMAIN weak.specs[q].fields
                             /\ "customData" \in DOMAIN strong.specs[q].fields}}

\* C6 as stated: every key of weak's dictionary, at any depth, is in the
\* stitched dictionary at the same position, and where strong had the key
\* too strong's subtree at it is unchanged.
C6_SubtreeUnchanged ==
    (Done /\ NoFn) =>
        \A x \in DictPairs : \A q \in KeyPaths(x[2]) :
            /\ q \in KeyPaths(x[3])
            /\ q \in KeyPaths(x[1]) => At(x[3], q) = At(x[1], q)

\* strong holds a value that is no dictionary at a key enclosing position q
Shadowed(s, q) ==
    \E n \in 1..(Len(q) - 1) :
        /\ SubSeq(q, 1, n) \in KeyPaths(s)
        /\ At(s, SubSeq(q, 1, n)).t # "dict"

\* C6 amended: every key of weak's dictionary that no non-dictionary value
\* of strong encloses is in the stitched dictionary at the same position;
\* where strong had the key too, strong's value is unchanged unless both
\* values are dictionaries, which are stitched in turn; where strong had it
\* not, the value is weak's; and every entry of strong's dictionary is kept.
C6_DictionaryUnion ==
    (Done /\ NoFn) =>
        \A x \in DictPairs :
            /\ \A q \in KeyPaths(x[2]) :
                  ~Shadowed(x[1], q) =>
                      /\ q \in KeyPaths(x[3])
                      /\ IF q \in KeyPaths(x[1])
                         THEN IF At(x[1], q).t = "dict" /\ At(x[2], q).t = "dict"
                              THEN At(x[3], q).t = "dict"
                              ELSE At(x[3], q) = At(x[1], q)
                         ELSE At(x[3], q) = At(x[2], q)
            /\ \A q \in KeyPaths(x[1]) :
                  /\ q \in KeyPaths(x[3])
                  /\ At(x[1], q).t # "dict" => At(x[3], q) = At(x[1], q)

\* two dictionaries nested under the same key, each with a key of its own
C6_Witness ==
    /\ Done /\ NoFn
    /\ \E x \in DictPairs :
          /\ x[1] = [k1 |-> Dict([k2 |-> Scalar("s")])]
          /\ x[2] = [k1 |-> Dict([k1 |-> Scalar("w")])]
          /\ x[3] = [k1 |-> Dict([k1 |-> Scalar("w"), k2 |-> Scalar("s")])]

(***************************************************************************)
(* C7  Whole-subtree clone                                                 *)
(***************************************************************************)
\* the weak specs with no spec at their path in strong but one at the parent
Missing ==
    {p \in (DOMAIN weak.specs) \ (DOMAIN before.specs) :
        Len(p) = 1 \/ Parent(p) \in DOMAIN before.specs}

\* strong holds a verbatim copy of the weak subtree at p
Verbatim(p) ==
    \A q \in Subtree(weak, p) :
        q \in DOMAIN strong.specs /\ strong.specs[q] = weak.specs[q]

Deletes ==
    stitchValueFn.dec = [status |-> "UseSuppliedValue", value |-> EmptyValue]

\* C8: a field for which the callback answers UseSuppliedValue with an
\* empty value is absent from the destination spec afterwards, whatever the
\* two sides held; and no field strong held goes missing in any other way.
C8_CallbackDeletion ==
    Done =>
        /\ Deletes => \A x \in Stitched : stitchValueFn.field \notin DOMAIN x[3]
        /\ \A x \in AllStrong : \A f \in DOMAIN x[1] :
              (~x[3] \/ f \notin DOMAIN x[2]) => (Deletes /\ f = stitchValueFn.field)

\* a field both sides held, removed from strong by the callback
C8_Witness ==
    /\ Done /\ Deletes
    /\ \E p \in Pairs :
          /\ stitchValueFn.field \in DOMAIN before.specs[p].fields
          /\ stitchValueFn.field \in DOMAIN weak.specs[p].fields
          /\ stitchValueFn.field \notin DOMAIN strong.specs[p].fields

(***************************************************************************)
(* C9  Callback skip                                                       *)
(***************************************************************************)
Skips == stitchValueFn.dec.status = "NoStitchedValue"

\* C9: a field for which the callback answers NoStitchedValue is afterwards
\* exactly as strong held it: the same value, or still none.
C9_CallbackSkip ==
    (Done /\ Skips) =>
        \A x \in Stitched :
            LET f == stitchValueFn.field
            IN  IF f \in DOMAIN x[1] THEN Has(x[3], f, x[1][f])
                ELSE f \notin DOMAIN x[3]

\* strong had no value, weak has one, and strong still has none
C9_Witness ==
    /\ Done /\ Skips
    /\ \E x \in Stitched :
          /\ stitchValueFn.field \notin DOMAIN x[1]
          /\ stitchValueFn.field \in DOMAIN x[2]
          /\ stitchValueFn.field \notin DOMAIN x[3]

(***************************************************************************)
(* C10  Traversal order                                                    *)
(***************************************************************************)
\* one fixed order for a set of paths or of field names
SomeOrder(S) == CHOOSE o \in Orders(S) : TRUE

\* the walk made in the fixed order
RECURSIVE WalkInOrder(_, _, _, _)
WalkInOrder(s, w, todo, halt) ==
    IF todo = <<>> THEN s
    ELSE LET p == Head(todo)
             kids == SomeOrder(Children(w, p))
         IN  IF p \notin DOMAIN s.specs
             THEN WalkInOrder(CopySpec(s, w, p), w, Tail(todo), halt)
             ELSE IF s.specs[p].kind # w.specs[p].kind
             THEN WalkInOrder(s, w, IF halt THEN Tail(todo) ELSE kids \o Tail(todo),
                              halt)
             ELSE WalkInOrder(StitchSpec(s, w, p,
                                         SomeOrder(DeclaredFields(w.specs[p].kind)),
                                         NoStitchValueFn),
                              w, kids \o Tail(todo), halt)

StitchedInOrder(s, w, halt) ==
    StitchMetadata(WalkInOrder(s, w, SomeOrder(Children(w, Root)), halt), w,
                   SomeOrder(DeclaredFields("layer")), NoStitchValueFn)

\* C10: whatever the order in which sibling paths and fields were visited,
\* UsdUtilsStitchLayers without a callback ends with the strong layer that
\* the walk in one fixed order ends with.
C10_OrderIndependence ==
    (Done /\ NoFn /\ Op = "layers") =>
        strong = StitchedInOrder(before, weak, haltOnMismatch)

\* two sibling subtrees cloned in either order
C10_Witness ==
    /\ Done /\ NoFn /\ Op = "layers"
    /\ Len(walked) = 2
    /\ walked[1] = SomeOrder({<<"a">>, <<"b">>})[2]
    /\ walked[2] = SomeOrder({<<"a">>, <<"b">>})[1]
    /\ {<<"a">>, <<"b">>, <<"a", "c">>} \subseteq (DOMAIN strong.specs) \ (DOMAIN before.specs)

====
